---------------------------- MODULE Spec2Model ----------------------------
(***************************************************************************)
(* Model of the array-backed containers of the ods library:                *)
(*   array_list/src/array_deque.rs   ArrayDeque  (circular buffer List)    *)
(*   array_list/src/array_stack.rs   ArrayStack  (growable array List)     *)
(*   array_list/src/array_queue.rs   ArrayQueue  (circular buffer Queue)   *)
(*   linked_list/src/sl_list.rs      SLList      (Rc-linked Stack + Queue) *)
(*                                                                         *)
(* A buffer is a sequence of slots; physical index p of the Rust slice is  *)
(* element p + 1 of the sequence.  A slot holds None, Some(v) for a value  *)
(* v in Values, or Junk.  allocate_with() builds its Vec with              *)
(* Vec::with_capacity + set_len and never writes the slots, so a slot of   *)
(* a fresh buffer is uninitialised memory: it reads as None or as Some of  *)
(* arbitrary bits (Junk), chosen nondeterministically per slot.  Elements  *)
(* are plain values without drop glue (i32 and char in the repository's    *)
(* tests), so overwriting an uninitialised slot has no further effect.     *)
(*                                                                         *)
(* A panic ends the run (status = "panic"); the state it leaves is the     *)
(* state at the panicking statement.                                       *)
(***************************************************************************)
EXTENDS Integers, Sequences, FiniteSets, TLC

\* ------------------------------------------------------------------ bounds
MaxCount == 4          \* in-contract runs: add is enabled below this count
MaxCountAny == 3       \* any-index runs: add is enabled below this count
NumValues == 2         \* element values are 1..NumValues
ExtraIdx == 1          \* indices tried go up to capacity + ExtraIdx

Values == 1..NumValues
None == 0              \* Option::None
Junk == -1             \* Some(<uninitialised bits>)
Slots == {None, Junk} \cup Values

VARIABLES
    a,        \* ArrayDeque.a, the boxed slice
    j,        \* ArrayDeque.j, physical index of logical position 0
    n,        \* ArrayDeque.n, the count
    status,   \* "ok", or how the run ended: "panic" or "hang"
    last,     \* the last call: operation, arguments, result, whether it
              \* called resize(), number of slot-to-slot moves of its shift
    ref,      \* reference list: the same calls applied to a plain list
    mode,     \* "free": any call; "alt": add-at-end / remove-at-end in turn
    run,      \* in "alt" mode, the last (up to three) calls of the alternation
    checked,  \* the build checks integer overflow (debug) or wraps (release)
    kind,     \* the container the run exercises: "deque" or "stack"
    sa,       \* ArrayStack.a
    sn,       \* ArrayStack.n (-1 stands for usize::MAX, the wrapped 0 - 1)
    sstatus,  \* as status, for the ArrayStack run; "wrapped": n wrapped around
    slast,    \* as last, for the ArrayStack run
    sref,     \* reference list of the ArrayStack run
    qa,       \* ArrayQueue.a
    qj,       \* ArrayQueue.j
    qn,       \* ArrayQueue.n
    qlast,    \* as last, for the ArrayQueue run
    qref,     \* reference list of the ArrayQueue run: oldest element first
    ops,      \* metered runs: number of calls made; test runs: adds made
    work,     \* metered runs: elements moved by shifts and by resize()
    lnodes,   \* SLList: the live Rc<RefCell<Node>> cells, id -> [element, next]
    lhead,    \* SLList.head (0: None, else a node id)
    ltail,    \* SLList.tail (0: None, else a node id)
    ln,       \* SLList.n
    lstatus,  \* as status, for the SLList run
    llast,    \* as last, for the SLList run
    lref      \* reference list of the SLList run: front element first

dvars == <<a, j, n, status, last, ref, mode, run>>
svars == <<sa, sn, sstatus, slast, sref>>
env == <<checked, kind>>
qvars == <<qa, qj, qn, qlast, qref>>
mvars == <<ops, work>>
lvars == <<lnodes, lhead, ltail, ln, lstatus, llast, lref>>
rest == <<qvars, mvars, lvars>>
vars == <<dvars, svars, env, rest>>

\* ------------------------------------------------------- ArrayDeque, pure
capacity(buf) == Len(buf)

\* (faulty variant: off by one, accepts i = n)
within_bound_m(cnt, i) == i < cnt \/ (cnt > 0 /\ i = cnt)
within_bound(cnt, i) == i < cnt

\* physical index of logical position k
Phys(hd, k, cap) == (hd + k) % cap

SlotAt(buf, p) == buf[p + 1]

\* a[dst] = a[src].take()
MoveSlot(buf, src, dst) ==
    [[buf EXCEPT ![src + 1] = None] EXCEPT ![dst + 1] = buf[src + 1]]

\* the buffer sizes resize() allocates
\* (faulty variant: grows by one slot instead of doubling)
NewLen_m(cnt) == cnt + 1
NewLen(cnt) == IF cnt * 2 > 1 THEN cnt * 2 ELSE 1

\* the possible contents of the slots lo..hi of a fresh buffer
FreshFills(lo, hi) == [lo..hi -> {None, Junk}]

\* resize(): new buffer of max(2n, 1) slots, logical element k at slot k
\* (faulty variant: copies the physical slots, ignoring the head)
Resize_m(buf, hd, cnt, fill) ==
    [k \in 1..NewLen(cnt) |-> IF k <= cnt THEN buf[k] ELSE fill[k]]
Resize(buf, hd, cnt, fill) ==
    [k \in 1..NewLen(cnt) |->
        IF k <= cnt THEN buf[Phys(hd, k - 1, Len(buf)) + 1] ELSE fill[k]]

\* logical content, position 0 first (get(0), ..., get(n-1))
Logical(buf, hd, cnt) ==
    [k \in 1..cnt |-> buf[Phys(hd, k - 1, Len(buf)) + 1]]

\* get(i)
GetValue(buf, hd, cnt, i) ==
    IF ~within_bound(cnt, i) THEN None
    ELSE SlotAt(buf, Phys(hd, i, capacity(buf)))

\* add, first half: for k in 0..i { a[j+k] = a[j+k+1].take() }
RECURSIVE AddShiftFront(_, _, _, _)
AddShiftFront(buf, hd, k, i) ==
    IF k >= i THEN buf
    ELSE AddShiftFront(MoveSlot(buf, Phys(hd, k + 1, Len(buf)), Phys(hd, k, Len(buf))),
                       hd, k + 1, i)

\* add, second half: for k in ((i+1)..=n).rev() { a[j+k] = a[j+k-1].take() }
RECURSIVE AddShiftBack(_, _, _, _)
AddShiftBack(buf, hd, k, i) ==
    IF k < i + 1 THEN buf
    ELSE AddShiftBack(MoveSlot(buf, Phys(hd, k - 1, Len(buf)), Phys(hd, k, Len(buf))),
                      hd, k - 1, i)

\* remove, first half: for k in (1..=i).rev() { a[j+k] = a[j+k-1].take() }
RECURSIVE RemoveShiftFront(_, _, _)
RemoveShiftFront(buf, hd, k) ==
    IF k < 1 THEN buf
    ELSE RemoveShiftFront(MoveSlot(buf, Phys(hd, k - 1, Len(buf)), Phys(hd, k, Len(buf))),
                          hd, k - 1)

\* remove, second half: for k in i..(n-1) { a[j+k] = a[j+k+1].take() }
RECURSIVE RemoveShiftBack(_, _, _, _)
RemoveShiftBack(buf, hd, k, cnt) ==
    IF k >= cnt - 1 THEN buf
    ELSE RemoveShiftBack(MoveSlot(buf, Phys(hd, k + 1, Len(buf)), Phys(hd, k, Len(buf))),
                         hd, k + 1, cnt)

\* the number of iterations of the four shift loops, one move each
RECURSIVE AddShiftFrontMoves(_, _)
AddShiftFrontMoves(k, i) == IF k >= i THEN 0 ELSE 1 + AddShiftFrontMoves(k + 1, i)
RECURSIVE AddShiftBackMoves(_, _)
AddShiftBackMoves(k, i) == IF k < i + 1 THEN 0 ELSE 1 + AddShiftBackMoves(k - 1, i)
RECURSIVE RemoveShiftFrontMoves(_)
RemoveShiftFrontMoves(k) == IF k < 1 THEN 0 ELSE 1 + RemoveShiftFrontMoves(k - 1)
RECURSIVE RemoveShiftBackMoves(_, _)
RemoveShiftBackMoves(k, cnt) ==
    IF k >= cnt - 1 THEN 0 ELSE 1 + RemoveShiftBackMoves(k + 1, cnt)

\* the growth test of add and the shrink test of remove
\* (faulty variants: >= for >, and a shrink threshold of a quarter)
NeedsGrow_m(cnt, cap) == cnt + 1 >= cap
NeedsGrow(cnt, cap) == cnt + 1 > cap
NeedsShrink_m(cnt, cap) == 4 * cnt < cap
NeedsShrink(cnt, cap) == 3 * cnt < cap

\* the direction test of add and remove
\* (faulty variant: the front loop for every index of the list)
FrontHalf_m(i, cnt) == i < cnt
FrontHalf(i, cnt) == i < cnt \div 2

\* head one step back / forward
\* (faulty variants: no wrap-around at 0, no modulo)
HeadBack_m(hd, cap) == IF hd = 0 THEN 0 ELSE hd - 1
HeadBack(hd, cap) == IF hd = 0 THEN cap - 1 ELSE hd - 1
HeadForward_m(hd, cap) == hd + 1
HeadForward(hd, cap) == (hd + 1) % cap

\* add after the growth step: shift, place x, count + 1
AddShifted(buf, hd, cnt, i, x) ==
    LET cap == Len(buf) IN
    IF FrontHalf(i, cnt)
    THEN LET h2 == HeadBack(hd, cap)
             b2 == AddShiftFront(buf, h2, 0, i)
         IN [a |-> [b2 EXCEPT ![Phys(h2, i, cap) + 1] = x], j |-> h2, n |-> cnt + 1,
             moves |-> AddShiftFrontMoves(0, i)]
    ELSE LET b2 == AddShiftBack(buf, hd, cnt, i)
         IN [a |-> [b2 EXCEPT ![Phys(hd, i, cap) + 1] = x], j |-> hd, n |-> cnt + 1,
             moves |-> AddShiftBackMoves(cnt, i)]

\* remove on a non-empty count, before the shrink step
RemoveShifted(buf, hd, cnt, i) ==
    LET cap == Len(buf)
        b1 == [buf EXCEPT ![Phys(hd, i, cap) + 1] = None]
    IN IF FrontHalf(i, cnt)
       THEN [a |-> RemoveShiftFront(b1, hd, i), j |-> HeadForward(hd, cap), n |-> cnt - 1,
             moves |-> RemoveShiftFrontMoves(i)]
       ELSE [a |-> RemoveShiftBack(b1, hd, i, cnt), j |-> hd, n |-> cnt - 1,
             moves |-> RemoveShiftBackMoves(i, cnt)]

\* ------------------------------------------------------- reference list
\* (insert-at / delete-at / replace-at of a plain list; an index the list
\* does not have leaves it as it is)
InsertAt(s, i, x) ==
    IF i > Len(s) THEN s ELSE SubSeq(s, 1, i) \o <<x>> \o SubSeq(s, i + 1, Len(s))
DeleteAt(s, i) ==
    IF i >= Len(s) THEN s ELSE SubSeq(s, 1, i) \o SubSeq(s, i + 2, Len(s))
ReplaceAt(s, i, x) ==
    IF i >= Len(s) THEN s ELSE [s EXCEPT ![i + 1] = x]

\* -------------------------------------------------------------- actions
Op(name, i, x, ret, resized, moves) ==
    [op |-> name, i |-> i, x |-> x, ret |-> ret, resized |-> resized, moves |-> moves]

\* the containers a run does not exercise, as their new() leaves them
InitRest ==
    /\ sref = <<>>
    /\ qa = <<>>
    /\ qj = 0
    /\ qn = 0
    /\ qlast = Op("new", 0, None, None, FALSE, 0)
    /\ qref = <<>>
    /\ ops = 0
    /\ work = 0
    /\ lnodes = <<>>
    /\ lhead = 0
    /\ ltail = 0
    /\ ln = 0
    /\ lstatus = "ok"
    /\ llast = Op("new", 0, None, None, FALSE, 0)
    /\ lref = <<>>

\* ArrayDeque::new() and ArrayStack::new(); the run exercises the deque
Init ==
    /\ a = <<>>
    /\ j = 0
    /\ n = 0
    /\ status = "ok"
    /\ last = Op("new", 0, None, None, FALSE, 0)
    /\ ref = <<>>
    /\ mode = "free"
    /\ run = <<>>
    /\ checked \in BOOLEAN
    /\ kind = "deque"
    /\ sa = <<>>
    /\ sn = 0
    /\ sstatus = "ok"
    /\ slast = Op("new", 0, None, None, FALSE, 0)
    /\ InitRest

\* List::get
DoGet(i) ==
    /\ status = "ok"
    /\ UNCHANGED <<svars, env>>
    /\ last' = Op("get", i, None, GetValue(a, j, n, i), FALSE, 0)
    /\ UNCHANGED <<a, j, n, status>>

\* self.a[(self.j + i) % self.capacity()].replace(x)
\* (faulty variant: the head offset is forgotten)
SetSlot_m(buf, hd, i, x) == [buf EXCEPT ![i + 1] = x]
SetSlot(buf, hd, i, x) == [buf EXCEPT ![Phys(hd, i, capacity(buf)) + 1] = x]

\* List::set
DoSet(i, x) ==
    /\ status = "ok"
    /\ UNCHANGED <<svars, env>>
    /\ IF ~within_bound(n, i)
       THEN /\ status' = "panic"
            /\ last' = Op("set", i, x, None, FALSE, 0)
            /\ UNCHANGED <<a, j, n>>
       ELSE /\ a' = SetSlot(a, j, i, x)
            /\ last' = Op("set", i, x, SlotAt(a, Phys(j, i, capacity(a))), FALSE, 0)
            /\ UNCHANGED <<j, n, status>>

\* List::add
DoAdd(i, x) ==
    /\ status = "ok"
    /\ UNCHANGED <<svars, env>>
    /\ \E fill \in (IF NeedsGrow(n, capacity(a))
                     THEN FreshFills(n + 1, NewLen(n)) ELSE {<<>>}) :
         LET grow == NeedsGrow(n, capacity(a))
             b1 == IF grow THEN Resize(a, j, n, fill) ELSE a
             h1 == IF grow THEN 0 ELSE j
             r == AddShifted(b1, h1, n, i, x)
         IN /\ a' = r.a
            /\ j' = r.j
            /\ n' = r.n
            /\ last' = Op("add", i, x, None, grow, r.moves)
    /\ UNCHANGED status

\* List::remove
DoRemove(i) ==
    /\ status = "ok"
    /\ UNCHANGED <<svars, env>>
    /\ IF capacity(a) = 0
       THEN \* (self.j + i) % self.capacity() divides by zero
            /\ status' = "panic"
            /\ last' = Op("remove", i, None, None, FALSE, 0)
            /\ UNCHANGED <<a, j, n>>
       ELSE IF n = 0
       THEN \* the slot is taken, then self.size() - 1 underflows: a panic
            \* with overflow checks, a loop of 2^64 moves without them
            /\ a' = [a EXCEPT ![Phys(j, i, capacity(a)) + 1] = None]
            /\ status' = IF checked THEN "panic" ELSE "hang"
            /\ last' = Op("remove", i, None, None, FALSE, 0)
            /\ UNCHANGED <<j, n>>
       ELSE \E fill \in (IF NeedsShrink(n - 1, capacity(a))
                          THEN FreshFills(n, NewLen(n - 1)) ELSE {<<>>}) :
            LET x == SlotAt(a, Phys(j, i, capacity(a)))
                r == RemoveShifted(a, j, n, i)
                shrink == NeedsShrink(r.n, capacity(r.a))
            IN /\ a' = IF shrink THEN Resize(r.a, r.j, r.n, fill) ELSE r.a
               /\ j' = IF shrink THEN 0 ELSE r.j
               /\ n' = r.n
               /\ last' = Op("remove", i, None, x, shrink, r.moves)
               /\ UNCHANGED status

\* the operations with the indices the List contract allows, applied to
\* the container and to the reference list ref
Get ==
    /\ mode = "free"
    /\ \E i \in 0..(n + ExtraIdx) : DoGet(i)
    /\ UNCHANGED <<ref, mode, run, rest>>
Set ==
    /\ mode = "free"
    /\ \E i \in 0..(n - 1) : \E x \in Values : DoSet(i, x) /\ ref' = ReplaceAt(ref, i, x)
    /\ UNCHANGED <<mode, run, rest>>
Add ==
    /\ mode = "free"
    /\ n < MaxCount
    /\ \E i \in 0..n : \E x \in Values : DoAdd(i, x) /\ ref' = InsertAt(ref, i, x)
    /\ UNCHANGED <<mode, run, rest>>
Remove ==
    /\ mode = "free"
    /\ \E i \in 0..(n - 1) : DoRemove(i) /\ ref' = DeleteAt(ref, i)
    /\ UNCHANGED <<mode, run, rest>>

Next == Get \/ Set \/ Add \/ Remove

Spec == Init /\ [][Next]_vars

\* the operations with any index, inside the contract or not (the
\* reference list is not followed)
IndexRange == 0..(capacity(a) + ExtraIdx)
AnyGet == (\E i \in IndexRange : DoGet(i)) /\ UNCHANGED <<ref, mode, run, rest>>
AnySet ==
    /\ \E i \in IndexRange : \E x \in Values : DoSet(i, x)
    /\ UNCHANGED <<ref, mode, run, rest>>
AnyAdd ==
    /\ n < MaxCountAny
    /\ \E i \in IndexRange : \E x \in Values : DoAdd(i, x)
    /\ UNCHANGED <<ref, mode, run, rest>>
AnyRemove == (\E i \in IndexRange : DoRemove(i)) /\ UNCHANGED <<ref, mode, run, rest>>

NextAny == AnyGet \/ AnySet \/ AnyAdd \/ AnyRemove

SpecAny == Init /\ [][NextAny]_vars

\* from any state of an in-contract run: add(size(), x) and
\* remove(size() - 1) in turn, starting with the add
Last3(s) == IF Len(s) > 3 THEN SubSeq(s, Len(s) - 2, Len(s)) ELSE s

StartAlt ==
    /\ mode = "free"
    /\ status = "ok"
    /\ UNCHANGED <<svars, env>>
    /\ mode' = "alt"
    /\ UNCHANGED <<a, j, n, status, last, ref, run, rest>>
AltAdd ==
    /\ mode = "alt"
    /\ IF run = <<>> THEN TRUE ELSE run[Len(run)].op = "remove"
    /\ n < MaxCount
    /\ \E x \in Values : DoAdd(n, x) /\ ref' = InsertAt(ref, n, x)
    /\ run' = Last3(Append(run, [op |-> "add", resized |-> last'.resized]))
    /\ UNCHANGED <<mode, rest>>
AltRemove ==
    /\ mode = "alt"
    /\ IF run = <<>> THEN FALSE ELSE run[Len(run)].op = "add"
    /\ DoRemove(n - 1) /\ ref' = DeleteAt(ref, n - 1)
    /\ run' = Last3(Append(run, [op |-> "remove", resized |-> last'.resized]))
    /\ UNCHANGED <<mode, rest>>

NextAlt == Get \/ Set \/ Add \/ Remove \/ StartAlt \/ AltAdd \/ AltRemove

SpecAlt == Init /\ [][NextAlt]_vars

\* ------------------------------------------------------- ArrayStack
MaxStackCount == 4     \* stack runs: add and push are enabled below this count

stack_within_bound(buf, cnt, i) == i < Len(buf) /\ i < cnt

\* the buffer size ArrayStack::resize() allocates
StackNewLen(cnt) == IF cnt * 2 > 1 THEN cnt * 2 ELSE 1

\* ArrayStack::resize(): the first n slots cloned into a fresh buffer
StackResize(buf, cnt, fill) ==
    [k \in 1..StackNewLen(cnt) |->
        IF k <= cnt /\ k <= Len(buf) THEN buf[k] ELSE fill[k]]

\* a[lo..hi].rotate_right(1)
\* (faulty variant: no rotation)
RotateRight_m(buf, lo, hi) == buf
RotateRight(buf, lo, hi) ==
    [p \in 1..Len(buf) |->
        IF p - 1 = lo THEN buf[hi]
        ELSE IF lo < p - 1 /\ p - 1 < hi THEN buf[p - 1]
        ELSE buf[p]]

\* a[lo..hi].rotate_left(1)
RotateLeft(buf, lo, hi) ==
    [p \in 1..Len(buf) |->
        IF p - 1 = hi - 1 THEN buf[lo + 1]
        ELSE IF lo <= p - 1 /\ p - 1 < hi - 1 THEN buf[p + 1]
        ELSE buf[p]]

StackNeedsGrow(cnt, c) == cnt + 1 > c
\* (faulty variant of the shrink test: strict comparison)
StackNeedsShrink_m(cnt, c) == c > 3 * cnt
StackNeedsShrink(cnt, c) == c >= 3 * cnt

\* ArrayStack::add after the growth step
StackPlace(buf, cnt, i, x) ==
    IF i >= cnt
    THEN [buf EXCEPT ![cnt + 1] = x]
    ELSE LET b1 == RotateRight(buf, i, cnt)
             end == b1[i + 1]
         IN [[b1 EXCEPT ![i + 1] = x] EXCEPT ![cnt + 1] = end]

\* the first n slots, position 0 first
StackLogical(buf, cnt) == [k \in 1..cnt |-> buf[k]]

StackGetValue(buf, cnt, i) ==
    IF ~stack_within_bound(buf, cnt, i) THEN None ELSE buf[i + 1]

\* List::get of ArrayStack
StackDoGet(i) ==
    /\ sstatus = "ok"
    /\ UNCHANGED <<dvars, env>>
    /\ slast' = Op("get", i, None, StackGetValue(sa, sn, i), FALSE, 0)
    /\ UNCHANGED <<sa, sn, sstatus>>

\* List::set of ArrayStack
StackDoSet(i, x) ==
    /\ sstatus = "ok"
    /\ UNCHANGED <<dvars, env>>
    /\ IF ~stack_within_bound(sa, sn, i)
       THEN /\ sstatus' = "panic"
            /\ slast' = Op("set", i, x, None, FALSE, 0)
            /\ UNCHANGED <<sa, sn>>
       ELSE /\ sa' = [sa EXCEPT ![i + 1] = x]
            /\ slast' = Op("set", i, x, sa[i + 1], FALSE, 0)
            /\ UNCHANGED <<sn, sstatus>>

\* List::add of ArrayStack (name: the entry point, "add" or "push")
StackDoAdd(name, i, x) ==
    /\ sstatus = "ok"
    /\ UNCHANGED <<dvars, env>>
    /\ \E fill \in (IF StackNeedsGrow(sn, Len(sa))
                     THEN FreshFills(sn + 1, StackNewLen(sn)) ELSE {<<>>}) :
         LET grow == StackNeedsGrow(sn, Len(sa))
             b1 == IF grow THEN StackResize(sa, sn, fill) ELSE sa
         IN /\ sa' = StackPlace(b1, sn, i, x)
            /\ sn' = sn + 1
            /\ slast' = Op(name, i, x, None, grow, 0)
    /\ UNCHANGED sstatus

\* List::remove of ArrayStack (name: the entry point, "remove" or "pop")
StackDoRemove(name, i) ==
    /\ sstatus = "ok"
    /\ UNCHANGED <<dvars, env>>
    /\ IF i >= Len(sa)
       THEN \* self.a.get_mut(i)? returns None
            /\ slast' = Op(name, i, None, None, FALSE, 0)
            /\ UNCHANGED <<sa, sn, sstatus>>
       ELSE LET x == sa[i + 1]
                b1 == [sa EXCEPT ![i + 1] = None]
                b2 == IF i < sn THEN RotateLeft(b1, i, sn) ELSE b1
            IN IF sn = 0
               THEN \* self.n -= 1 underflows: a panic with overflow checks,
                    \* n = usize::MAX without them (3 * n wraps, no resize)
                    /\ sa' = b2
                    /\ sn' = IF checked THEN sn ELSE -1
                    /\ sstatus' = IF checked THEN "panic" ELSE "wrapped"
                    /\ slast' = Op(name, i, None, IF checked THEN None ELSE x, FALSE, 0)
               ELSE \E fill \in (IF StackNeedsShrink(sn - 1, Len(sa))
                                 THEN FreshFills(sn, StackNewLen(sn - 1)) ELSE {<<>>}) :
                    LET shrink == StackNeedsShrink(sn - 1, Len(sa))
                    IN /\ sa' = IF shrink THEN StackResize(b2, sn - 1, fill) ELSE b2
                       /\ sn' = sn - 1
                       /\ slast' = Op(name, i, None, x, shrink, 0)
                       /\ UNCHANGED sstatus

\* Stack::pop on the empty stack: self.size() - 1 underflows: a panic with
\* overflow checks; without them remove(usize::MAX) finds no slot
StackPopEmpty ==
    /\ sstatus = "ok"
    /\ sn = 0
    /\ UNCHANGED <<dvars, env>>
    /\ slast' = Op("pop", -1, None, None, FALSE, 0)
    /\ sstatus' = IF checked THEN "panic" ELSE sstatus
    /\ UNCHANGED <<sa, sn>>

\* the ArrayStack operations with the indices the contract allows
\* (applied to the stack and to the reference list sref: push appends,
\* pop deletes the last element)
StackGet ==
    /\ kind = "stack"
    /\ \E i \in 0..(sn + ExtraIdx) : StackDoGet(i)
    /\ UNCHANGED <<sref, rest>>
StackSet ==
    /\ kind = "stack"
    /\ \E i \in 0..(sn - 1) : \E x \in Values :
          StackDoSet(i, x) /\ sref' = ReplaceAt(sref, i, x)
    /\ UNCHANGED rest
StackAdd ==
    /\ kind = "stack"
    /\ sn < MaxStackCount
    /\ \E i \in 0..sn : \E x \in Values :
          StackDoAdd("add", i, x) /\ sref' = InsertAt(sref, i, x)
    /\ UNCHANGED rest
StackRemove ==
    /\ kind = "stack"
    /\ \E i \in 0..(sn - 1) : StackDoRemove("remove", i) /\ sref' = DeleteAt(sref, i)
    /\ UNCHANGED rest
StackPush ==
    /\ kind = "stack"
    /\ sn < MaxStackCount
    /\ \E x \in Values : StackDoAdd("push", sn, x) /\ sref' = Append(sref, x)
    /\ UNCHANGED rest
StackPop ==
    /\ kind = "stack"
    /\ sn > 0
    /\ StackDoRemove("pop", sn - 1)
    /\ sref' = SubSeq(sref, 1, Len(sref) - 1)
    /\ UNCHANGED rest

\* a run exercises one of the two array lists, within the List contract
InitEither ==
    /\ a = <<>>
    /\ j = 0
    /\ n = 0
    /\ status = "ok"
    /\ last = Op("new", 0, None, None, FALSE, 0)
    /\ ref = <<>>
    /\ mode = "free"
    /\ run = <<>>
    /\ checked \in BOOLEAN
    /\ kind \in {"deque", "stack"}
    /\ sa = <<>>
    /\ sn = 0
    /\ sstatus = "ok"
    /\ slast = Op("new", 0, None, None, FALSE, 0)
    /\ InitRest

DequeStep == kind = "deque" /\ (Get \/ Set \/ Add \/ Remove)

NextEither ==
    \/ DequeStep
    \/ StackGet \/ StackSet \/ StackAdd \/ StackRemove \/ StackPush \/ StackPop

SpecEither == InitEither /\ [][NextEither]_vars

\* ------------------------------------------------------------ ArrayQueue
MaxQueueCount == 5     \* queue runs: add is enabled below this count

\* new() of every container, the build's overflow mode open
NewAll ==
    /\ a = <<>>
    /\ j = 0
    /\ n = 0
    /\ status = "ok"
    /\ last = Op("new", 0, None, None, FALSE, 0)
    /\ ref = <<>>
    /\ mode = "free"
    /\ run = <<>>
    /\ checked \in BOOLEAN
    /\ sa = <<>>
    /\ sn = 0
    /\ sstatus = "ok"
    /\ slast = Op("new", 0, None, None, FALSE, 0)
    /\ InitRest

\* ArrayQueue::within_bound
queue_within_bound(buf, cnt, i) == i < Len(buf) /\ i < cnt

\* ArrayQueue::resize: new buffer of max(2n, 1) slots, element k at slot k
QueueNewLen(cnt) == IF cnt * 2 > 1 THEN cnt * 2 ELSE 1
QueueResize(buf, hd, cnt, fill) ==
    [k \in 1..QueueNewLen(cnt) |->
        IF k <= cnt THEN buf[((hd + k - 1) % Len(buf)) + 1] ELSE fill[k]]

\* List::get of ArrayQueue
QueueGetValue(buf, hd, cnt, i) ==
    IF ~queue_within_bound(buf, cnt, i) THEN None
    ELSE buf[((hd + i) % Len(buf)) + 1]

\* the content of the queue, oldest element first
QueueLogical(buf, hd, cnt) ==
    [k \in 1..cnt |-> buf[((hd + k - 1) % Len(buf)) + 1]]

\* if self.size() + 1 > self.capacity()
QueueNeedsGrow(cnt, c) == cnt + 1 > c

\* self.a[pos] = Some(x) with pos = (j + size) % capacity
\* (faulty variant: writes at the head slot)
QueuePlace_m(buf, hd, cnt, x) == [buf EXCEPT ![hd + 1] = x]
QueuePlace(buf, hd, cnt, x) == [buf EXCEPT ![((hd + cnt) % Len(buf)) + 1] = x]

\* self.j = (self.j + 1) % self.capacity()
\* (faulty variant: the head stays)
QueueHeadForward_m(hd, c) == hd
QueueHeadForward(hd, c) == (hd + 1) % c

\* Queue::add (the returned true is recorded as 1)
QueueDoAdd(x) ==
    \E fill \in (IF QueueNeedsGrow(qn, Len(qa))
                 THEN FreshFills(qn + 1, QueueNewLen(qn)) ELSE {<<>>}) :
      LET grow == QueueNeedsGrow(qn, Len(qa))
          b1 == IF grow THEN QueueResize(qa, qj, qn, fill) ELSE qa
          j1 == IF grow THEN 0 ELSE qj
      IN /\ qa' = QueuePlace(b1, j1, qn, x)
         /\ qj' = j1
         /\ qn' = qn + 1
         /\ qlast' = Op("add", qn, x, 1, grow, 0)

\* Queue::remove
QueueDoRemove ==
    IF qn = 0
    THEN /\ qlast' = Op("remove", 0, None, None, FALSE, 0)
         /\ UNCHANGED <<qa, qj, qn>>
    ELSE /\ qa' = [qa EXCEPT ![qj + 1] = None]
         /\ qj' = QueueHeadForward(qj, Len(qa))
         /\ qn' = qn - 1
         /\ qlast' = Op("remove", 0, None, qa[qj + 1], FALSE, 0)

\* the Queue operations, applied to the queue and to the reference list
\* qref (add appends, remove deletes the first element)
QueueAdd ==
    /\ kind = "queue"
    /\ qn < MaxQueueCount
    /\ \E x \in Values : QueueDoAdd(x) /\ qref' = Append(qref, x)
    /\ UNCHANGED <<dvars, svars, env, mvars, lvars>>
QueueRemove ==
    /\ kind = "queue"
    /\ QueueDoRemove
    /\ qref' = IF qref = <<>> THEN qref ELSE Tail(qref)
    /\ UNCHANGED <<dvars, svars, env, mvars, lvars>>
QueueGet ==
    /\ kind = "queue"
    /\ \E i \in 0..(qn + ExtraIdx) :
          qlast' = Op("get", i, None, QueueGetValue(qa, qj, qn, i), FALSE, 0)
    /\ UNCHANGED <<qa, qj, qn, qref>>
    /\ UNCHANGED <<dvars, svars, env, mvars, lvars>>

InitQueue == NewAll /\ kind = "queue"
NextQueue == QueueAdd \/ QueueRemove \/ QueueGet
SpecQueue == InitQueue /\ [][NextQueue]_vars

\* -------------------------------------------- queue and deque side by side
\* enqueue: ArrayQueue.add(x) and ArrayDeque.add(size(), x)
PairEnqueue ==
    /\ kind = "pair"
    /\ n < MaxCount
    /\ \E x \in Values : DoAdd(n, x) /\ QueueDoAdd(x)
    /\ UNCHANGED <<ref, mode, run, qref, mvars, lvars>>

\* dequeue on non-empty containers: ArrayQueue.remove() and
\* ArrayDeque.remove(0)
PairDequeue ==
    /\ kind = "pair"
    /\ n > 0
    /\ DoRemove(0)
    /\ QueueDoRemove
    /\ UNCHANGED <<ref, mode, run, qref, mvars, lvars>>

InitPair == NewAll /\ kind = "pair"
NextPair == PairEnqueue \/ PairDequeue
SpecPair == InitPair /\ [][NextPair]_vars

\* ------------------------------------------------- metered queue usage
MaxOps == 8     \* metered runs: calls are enabled below this number of calls

\* the elements resize() copies: for k in 0..self.n
ResizeCopies(cnt) == cnt

\* ArrayDeque.add(size(), x), its moves added to work
MeterEnqueue ==
    /\ kind = "meter"
    /\ ops < MaxOps
    /\ \E x \in Values : DoAdd(n, x)
    /\ ops' = ops + 1
    /\ work' = work + last'.moves + (IF last'.resized THEN ResizeCopies(n) ELSE 0)
    /\ UNCHANGED <<ref, mode, run, qvars, lvars>>

\* ArrayDeque.remove(0) on a non-empty deque, its moves added to work
MeterDequeue ==
    /\ kind = "meter"
    /\ ops < MaxOps
    /\ n > 0
    /\ DoRemove(0)
    /\ ops' = ops + 1
    /\ work' = work + last'.moves + (IF last'.resized THEN ResizeCopies(n') ELSE 0)
    /\ UNCHANGED <<ref, mode, run, qvars, lvars>>

InitMeter == NewAll /\ kind = "meter"
NextMeter == MeterEnqueue \/ MeterDequeue
SpecMeter == InitMeter /\ [][NextMeter]_vars

\* ------------------------------------- ArrayStack built with_capacity(6)
TestCapacity == 6      \* tests::capacity_test: ArrayStack::with_capacity(6)

\* the characters of tests::capacity_test: 'b', 'r', 'e', 'd'
TestChars == 1..4

\* the add(i, x) calls of tests::capacity_test, in order
TestAdds ==
    << <<0, 1>>, <<1, 2>>, <<2, 3>>, <<3, 4>>, <<2, 3>>, <<5, 2>>, <<5, 3>> >>

\* ArrayStack::with_capacity(TestCapacity): a buffer of unwritten slots
InitCap ==
    /\ a = <<>>
    /\ j = 0
    /\ n = 0
    /\ status = "ok"
    /\ last = Op("new", 0, None, None, FALSE, 0)
    /\ ref = <<>>
    /\ mode = "free"
    /\ run = <<>>
    /\ checked \in BOOLEAN
    /\ kind = "cap"
    /\ \E fill \in FreshFills(1, TestCapacity) :
          sa = [k \in 1..TestCapacity |-> fill[k]]
    /\ sn = 0
    /\ sstatus = "ok"
    /\ slast = Op("new", 0, None, None, FALSE, 0)
    /\ InitRest

\* the next add of the test (ops counts the adds made), when its index is
\* within the list
CapAdd ==
    /\ kind = "cap"
    /\ ops < Len(TestAdds)
    /\ TestAdds[ops + 1][1] <= sn
    /\ StackDoAdd("add", TestAdds[ops + 1][1], TestAdds[ops + 1][2])
    /\ sref' = InsertAt(sref, TestAdds[ops + 1][1], TestAdds[ops + 1][2])
    /\ ops' = ops + 1
    /\ UNCHANGED <<qvars, work, lvars>>

\* remove(i) at any index of the list
CapRemove ==
    /\ kind = "cap"
    /\ \E i \in 0..(sn - 1) : StackDoRemove("remove", i) /\ sref' = DeleteAt(sref, i)
    /\ UNCHANGED rest

\* stacks built by new() and the stack of the capacity test
InitStackRuns == (NewAll /\ kind = "stack") \/ InitCap
NextStackRuns ==
    \/ StackGet \/ StackSet \/ StackAdd \/ StackRemove \/ StackPush \/ StackPop
    \/ CapAdd \/ CapRemove
SpecStackRuns == InitStackRuns /\ [][NextStackRuns]_vars

TypeOK ==
    /\ a \in Seq(Slots)
    /\ j \in Nat
    /\ n \in Nat
    /\ status \in {"ok", "panic", "hang"}
    /\ sa \in Seq(Slots \cup TestChars)
    /\ sn \in Nat \cup {-1}
    /\ sstatus \in {"ok", "panic", "wrapped"}

\* ---------------------------------------------------------------- SLList
MaxListCount == 4      \* list runs: push and add are enabled below this n

\* Link<T>: 0 is None, any other number names an Rc<RefCell<Node<T>>> cell
NoLink == 0

\* the cell Rc::new allocates: any cell not alive (the least, cells being
\* interchangeable)
FreshNode(nodes) == CHOOSE u \in 1..(MaxListCount + 2) :
                       /\ u \notin DOMAIN nodes
                       /\ \A v \in 1..(u - 1) : v \in DOMAIN nodes

\* Node::new_link(x, next), stored in cell u
\* (faulty variant: the new node does not link to the old head)
PushNode_m(nodes, u, x, nxt) ==
    [id \in (DOMAIN nodes) \cup {u} |->
        IF id = u THEN [element |-> x, next |-> NoLink] ELSE nodes[id]]
PushNode(nodes, u, x, nxt) ==
    [id \in (DOMAIN nodes) \cup {u} |->
        IF id = u THEN [element |-> x, next |-> nxt] ELSE nodes[id]]

\* if let Some(t) = self.tail.take() { t.borrow_mut().next = Some(u.clone()) }
\* (faulty variant: the old tail is not linked to the new node)
AddLink_m(nodes, t, u) == nodes
AddLink(nodes, t, u) ==
    IF t = NoLink THEN nodes ELSE [nodes EXCEPT ![t].next = u]

\* h.borrow_mut().next.take()
TakeNext(nodes, h) == [nodes EXCEPT ![h].next = NoLink]

\* the tail after match h.borrow_mut().next.take(): kept when h had a
\* successor, None when it had none
\* (faulty variant: the tail is never cleared)
TailAfterTake_m(nx, tl) == tl
TailAfterTake(nx, tl) == IF nx = NoLink THEN NoLink ELSE tl

\* Rc::strong_count of cell id, counting the references held by head,
\* tail and next fields
StrongCount(nodes, hd, tl, id) ==
    (IF hd = id THEN 1 ELSE 0) + (IF tl = id THEN 1 ELSE 0)
      + Cardinality({m \in DOMAIN nodes : nodes[m].next = id})

\* the cells some reference still reaches; the others have been dropped
RECURSIVE ReachFrom(_, _, _)
ReachFrom(nodes, S, fuel) ==
    IF fuel = 0 THEN S
    ELSE ReachFrom(nodes, (S \cup {nodes[m].next : m \in S}) \ {NoLink}, fuel - 1)
Collect(nodes, hd, tl) ==
    LET live == ReachFrom(nodes, {hd, tl} \ {NoLink}, Cardinality(DOMAIN nodes))
    IN [id \in live |-> nodes[id]]

\* the ids met from link id on by following next, at most fuel of them
RECURSIVE Chain(_, _, _)
Chain(nodes, id, fuel) ==
    IF id = NoLink \/ fuel = 0 THEN <<>>
    ELSE <<id>> \o Chain(nodes, nodes[id].next, fuel - 1)

\* the elements of the list, front first
ListElements(nodes, hd, fuel) ==
    LET c == Chain(nodes, hd, fuel) IN [k \in 1..Len(c) |-> nodes[c[k]].element]

\* Stack::push
ListDoPush(x) ==
    LET u == FreshNode(lnodes)
        n1 == PushNode(lnodes, u, x, lhead)
        t1 == IF ln = 0 THEN u ELSE ltail
    IN /\ lnodes' = Collect(n1, u, t1)
       /\ lhead' = u
       /\ ltail' = t1
       /\ ln' = ln + 1
       /\ llast' = Op("push", 0, x, None, FALSE, 0)
       /\ UNCHANGED lstatus

\* Queue::add (the returned true is recorded as 1)
ListDoAdd(x) ==
    LET u == FreshNode(lnodes)
        n1 == PushNode(lnodes, u, x, NoLink)
        h1 == IF ln = 0 THEN u ELSE lhead
        n2 == AddLink(n1, ltail, u)
    IN /\ lnodes' = Collect(n2, h1, u)
       /\ lhead' = h1
       /\ ltail' = u
       /\ ln' = ln + 1
       /\ llast' = Op("add", 0, x, 1, FALSE, 0)
       /\ UNCHANGED lstatus

\* Stack::pop and Queue::remove, the same code (name: the entry point)
ListDoTake(name) ==
    IF ln = 0
    THEN /\ llast' = Op(name, 0, None, None, FALSE, 0)
         /\ UNCHANGED <<lnodes, lhead, ltail, ln, lstatus>>
    ELSE IF lhead = NoLink
    THEN \* self.head.take() is None: map returns None
         /\ ln' = ln - 1
         /\ llast' = Op(name, 0, None, None, FALSE, 0)
         /\ UNCHANGED <<lnodes, lhead, ltail, lstatus>>
    ELSE LET h == lhead
             nx == lnodes[h].next
             n1 == TakeNext(lnodes, h)
             h1 == nx
             t1 == TailAfterTake(nx, ltail)
             others == StrongCount(n1, h1, t1, h)
         IN /\ ln' = ln - 1
            /\ lhead' = h1
            /\ ltail' = t1
            /\ lnodes' = Collect(n1, h1, t1)
            /\ IF others = 0
               THEN \* Rc::try_unwrap(h) succeeds: h held the only reference
                    /\ llast' = Op(name, 0, None, lnodes[h].element, FALSE, 0)
                    /\ UNCHANGED lstatus
               ELSE \* Rc::try_unwrap(h) is Err: .ok().unwrap() panics
                    /\ llast' = Op(name, 0, None, None, FALSE, 0)
                    /\ lstatus' = "panic"

\* the Stack and Queue operations, applied to the list and to the
\* reference list lref (front first)
ListPush ==
    /\ kind = "list"
    /\ lstatus = "ok"
    /\ ln < MaxListCount
    /\ \E x \in Values : ListDoPush(x) /\ lref' = <<x>> \o lref
    /\ UNCHANGED <<dvars, svars, env, qvars, mvars>>
ListAdd ==
    /\ kind = "list"
    /\ lstatus = "ok"
    /\ ln < MaxListCount
    /\ \E x \in Values : ListDoAdd(x) /\ lref' = Append(lref, x)
    /\ UNCHANGED <<dvars, svars, env, qvars, mvars>>
ListPop ==
    /\ kind = "list"
    /\ lstatus = "ok"
    /\ ListDoTake("pop")
    /\ lref' = IF lref = <<>> THEN lref ELSE Tail(lref)
    /\ UNCHANGED <<dvars, svars, env, qvars, mvars>>
ListRemove ==
    /\ kind = "list"
    /\ lstatus = "ok"
    /\ ListDoTake("remove")
    /\ lref' = IF lref = <<>> THEN lref ELSE Tail(lref)
    /\ UNCHANGED <<dvars, svars, env, qvars, mvars>>

InitList == NewAll /\ kind = "list"
NextList == ListPush \/ ListAdd \/ ListPop \/ ListRemove
SpecList == InitList /\ [][NextList]_vars

\* ------------------------------------------ ArrayStack called at any index
MaxStackAnyCount == 3  \* these runs: push is enabled below this count

\* push to build the stack; remove at any index up to ExtraIdx slots
\* past the buffer; pop, also on the empty stack.  The reference list
\* is not followed here.
StackAnyPush ==
    /\ kind = "stackany"
    /\ sn < MaxStackAnyCount
    /\ \E x \in Values : StackDoAdd("push", sn, x)
    /\ UNCHANGED <<sref, rest>>
StackAnyRemove ==
    /\ kind = "stackany"
    /\ \E i \in 0..(Len(sa) + ExtraIdx) : StackDoRemove("remove", i)
    /\ UNCHANGED <<sref, rest>>
StackAnyPop ==
    /\ kind = "stackany"
    /\ IF sn = 0 THEN StackPopEmpty ELSE StackDoRemove("pop", sn - 1)
    /\ UNCHANGED <<sref, rest>>

InitStackAny == NewAll /\ kind = "stackany"
NextStackAny == StackAnyPush \/ StackAnyRemove \/ StackAnyPop
SpecStackAny == InitStackAny /\ [][NextStackAny]_vars

\* ------------------------------------------------------------ properties
cap == capacity(a)

\* physical slot p lies in the logical window [head, head + count)
InWindow(p) == \E k \in 0..(n - 1) : Phys(j, k, cap) = p

\* C1: in-contract runs refine the reference list.  After every call
\* size() is the length of the reference list and get(i) is its i-th
\* element for every i < size(); add raises size() by exactly 1; remove
\* and set return the element the reference list held at that index.
C1_RefinesReference ==
    [][ /\ n' = Len(ref')
        /\ \A i \in 0..(n' - 1) : GetValue(a', j', n', i) = ref'[i + 1]
        /\ \A i \in n'..(n' + ExtraIdx) : GetValue(a', j', n', i) = None
        /\ last'.op = "add" => n' = n + 1
        /\ last'.op \in {"remove", "set"} => last'.ret = ref[last'.i + 1]
        /\ last'.op = "get" =>
             last'.ret = (IF last'.i < Len(ref) THEN ref[last'.i + 1] ELSE None)
      ]_vars

\* a remove in the middle of a wrapped-around window returned an element
C1_Witness ==
    /\ last.op = "remove"
    /\ last.ret \in Values
    /\ n >= 2
    /\ j + n > cap
    /\ last.i > 0

\* C2: with capacity >= 1, remove(i) with i >= size() returns absent
\* without aborting and leaves size() and every get(k) as they were.
C2_RemoveOutOfRangeAbsent ==
    [][ (last'.op = "remove" /\ cap >= 1 /\ last'.i >= n) =>
           /\ status' = "ok"
           /\ last'.ret = None
           /\ n' = n
           /\ \A k \in IndexRange : GetValue(a', j', n', k) = GetValue(a, j, n, k)
      ]_vars

\* C3: on the zero-capacity container get(i) and remove(i) return absent
\* without aborting and the container stays empty.
C3_NewDequeReadDeleteTotal ==
    [][ (cap = 0 /\ last'.op \in {"get", "remove"}) =>
           /\ status' = "ok"
           /\ last'.ret = None
           /\ n' = 0
           /\ a' = a
      ]_vars

\* C4: set(i, x) with i >= size() panics and writes nothing: buffer, head
\* and count are as before the call.
C4_SetOutOfRangePanics ==
    [][ (last'.op = "set" /\ last'.i >= n) =>
           /\ status' = "panic"
           /\ a' = a
           /\ j' = j
           /\ n' = n
      ]_vars

\* set panicked on an index that wraps around to a slot holding an element
C4_Witness ==
    /\ status = "panic"
    /\ last.op = "set"
    /\ n >= 1
    /\ last.i >= n
    /\ InWindow(Phys(j, last.i, cap))

\* C5: for i < size(), set(i, x) returns what get(i) returned before, a
\* following get(i) returns x, and size(), head, capacity and every other
\* get(k) are unchanged.
C5_SetRoundTrip ==
    [][ (last'.op = "set" /\ last'.i < n) =>
           /\ status' = "ok"
           /\ last'.ret = GetValue(a, j, n, last'.i)
           /\ GetValue(a', j', n', last'.i) = last'.x
           /\ n' = n
           /\ j' = j
           /\ capacity(a') = cap
           /\ \A k \in IndexRange \ {last'.i} :
                 GetValue(a', j', n', k) = GetValue(a, j, n, k)
      ]_vars

\* set replaced an element by a different one in a window with head > 0
C5_Witness ==
    /\ status = "ok"
    /\ last.op = "set"
    /\ j > 0
    /\ n >= 2
    /\ last.ret \in Values
    /\ last.ret # last.x

\* C6: after every completed in-contract call, every slot of the logical
\* window holds an element and every other slot holds the empty marker.
C6_WindowExact ==
    status = "ok" =>
        \A p \in 0..(cap - 1) :
            IF InWindow(p) THEN SlotAt(a, p) # None ELSE SlotAt(a, p) = None

\* C7: 0 <= count <= capacity; capacity = 0 implies count = 0 and head = 0;
\* capacity > 0 implies 0 <= head < capacity; head wraps to capacity - 1
\* when stepped back from 0 and to 0 when stepped forward from capacity - 1.
C7_Bounds ==
    /\ 0 <= n /\ n <= cap
    /\ cap = 0 => (n = 0 /\ j = 0)
    /\ cap > 0 => (0 <= j /\ j < cap)

C7_HeadWraps ==
    /\ (last'.op = "add" /\ status' = "ok" /\ last'.i < n \div 2) =>
          LET h == IF last'.resized THEN 0 ELSE j
          IN j' = IF h = 0 THEN capacity(a') - 1 ELSE h - 1
    /\ (last'.op = "remove" /\ status' = "ok" /\ last'.i < n \div 2 /\ ~last'.resized) =>
          j' = IF j = cap - 1 THEN 0 ELSE j + 1

C7_CountHeadInvariant == []C7_Bounds /\ [][C7_HeadWraps]_vars

\* a front-half add stepped head back from 0 to capacity - 1, and a
\* front-half remove stepped it forward from capacity - 1 to 0
C7_Witness ==
    \/ /\ last.op = "add" /\ ~last.resized /\ last.i < (n - 1) \div 2
       /\ j = cap - 1 /\ n >= 3
    \/ /\ last.op = "remove" /\ ~last.resized /\ last.i < (n + 1) \div 2
       /\ j = 0 /\ n >= 2 /\ last.moves > 0

\* C8: in-contract runs keep count <= capacity <= max(3 * count, 1).
C8_CapacityWithinFactor ==
    /\ n <= cap
    /\ cap <= (IF 3 * n > 1 THEN 3 * n ELSE 1)

\* a remove shrank a buffer that still holds elements
C8_Witness ==
    /\ last.op = "remove"
    /\ last.resized
    /\ n >= 1
    /\ cap = 2 * n

\* C9: in an alternation of add(size(), x) and remove(size() - 1), no
\* three consecutive calls all reallocate, and a remove that shrinks is
\* never followed at once by an add that grows.
C9_NoThrash ==
    /\ Len(run) = 3 => ~(run[1].resized /\ run[2].resized /\ run[3].resized)
    /\ \A k \in 1..(Len(run) - 1) :
          (run[k].op = "remove" /\ run[k].resized /\ run[k + 1].op = "add")
             => ~run[k + 1].resized

\* the alternation reached the boundary: a grow, then a shrink, then an
\* add that found room
C9_Witness ==
    /\ Len(run) = 3
    /\ run[1].resized
    /\ run[2].resized
    /\ run[2].op = "remove"
    /\ ~run[3].resized

\* C10: add on a full container (count = capacity = c) reallocates to
\* exactly max(2 * c, 1) slots, add on a container with room keeps the
\* capacity, and in both cases the elements present keep their logical
\* order around the inserted one; for ArrayDeque and for ArrayStack.
C10_GrowthRule ==
    [][ /\ (kind = "deque" /\ last'.op = "add") =>
              /\ IF n = cap
                 THEN capacity(a') = (IF 2 * cap > 1 THEN 2 * cap ELSE 1) /\ last'.resized
                 ELSE capacity(a') = cap /\ ~last'.resized
              /\ Logical(a', j', n') = InsertAt(Logical(a, j, n), last'.i, last'.x)
        /\ (kind = "stack" /\ slast'.op \in {"add", "push"}) =>
              /\ IF sn = Len(sa)
                 THEN Len(sa') = (IF 2 * Len(sa) > 1 THEN 2 * Len(sa) ELSE 1) /\ slast'.resized
                 ELSE Len(sa') = Len(sa) /\ ~slast'.resized
              /\ StackLogical(sa', sn') = InsertAt(StackLogical(sa, sn), slast'.i, slast'.x)
      ]_vars

\* a deque holding two elements in two slots grew to four slots on an
\* insertion in the middle
C10_Witness ==
    /\ kind = "deque"
    /\ last.op = "add"
    /\ last.resized
    /\ cap = 4
    /\ n = 3
    /\ last.i = 1

\* C11: when remove(i) with i < count leaves n elements, the buffer is
\* reallocated exactly when 3 * n < capacity; the new capacity is then
\* max(2 * n, 1), the head is 0 and slots [0, n) hold the remaining
\* elements in logical order; otherwise the capacity is unchanged.
C11_ShrinkRule ==
    [][ (last'.op = "remove" /\ status' = "ok" /\ last'.i < n) =>
            /\ last'.resized <=> (3 * n' < cap)
            /\ n' = n - 1
            /\ IF 3 * n' < cap
               THEN /\ capacity(a') = (IF 2 * n' > 1 THEN 2 * n' ELSE 1)
                    /\ j' = 0
                    /\ SubSeq(a', 1, n') = DeleteAt(Logical(a, j, n), last'.i)
               ELSE capacity(a') = cap
      ]_vars

\* a removal that left one element shrank the buffer from four slots to
\* two, the element now at slot 0
C11_Witness ==
    /\ last.op = "remove"
    /\ last.resized
    /\ status = "ok"
    /\ cap = 2
    /\ n = 1
    /\ j = 0
    /\ a[1] = ref[1]

\* C12: ArrayQueue is FIFO.  add always returns true and appends; remove
\* on a non-empty queue returns the oldest element not yet removed;
\* remove on an empty queue returns absent and leaves size, head and
\* buffer unchanged.  After every call the queue holds the reference
\* list, oldest element first.
C12_QueueFifo ==
    /\ [](kind = "queue" => (qn = Len(qref) /\ QueueLogical(qa, qj, qn) = qref))
    /\ [][ /\ qlast'.op = "add" =>
                /\ qlast'.ret = 1
                /\ qn' = qn + 1
           /\ (qlast'.op = "remove" /\ qn > 0) =>
                /\ qlast'.ret = qref[1]
                /\ qn' = qn - 1
           /\ (qlast'.op = "remove" /\ qn = 0) =>
                /\ qlast'.ret = None
                /\ qn' = 0
                /\ qj' = qj
                /\ qa' = qa
         ]_vars

\* three elements were added and the first two removed, the second of
\* them just now and different from the first; the head has moved on
C12_Witness ==
    /\ kind = "queue"
    /\ qlast.op = "remove"
    /\ qlast.ret = 2
    /\ qn = 1
    /\ qj = 2
    /\ qref = <<1>>

\* C13: the queue is a specialization of the deque.  Running
\* ArrayQueue.add(x) / remove() side by side with ArrayDeque.add(size(), x)
\* / remove(0), dequeue only on non-empty containers, gives after each
\* step the same size(), the same get(i) for every i, and the same
\* returned element from every dequeue.
C13_QueueIsDequeSpecialization ==
    /\ [](kind = "pair" =>
            /\ status = "ok"
            /\ qn = n
            /\ \A i \in 0..(n + ExtraIdx) :
                  QueueGetValue(qa, qj, qn, i) = GetValue(a, j, n, i))
    /\ [][ (kind = "pair" /\ qlast'.op = "remove") =>
              (last'.op = "remove" /\ qlast'.ret = last'.ret) ]_vars

\* after a dequeue that returned an element both containers hold one
\* element, the deque in a buffer it shrank to two slots with head 0, the
\* queue in its four slots with head 3
C13_Witness ==
    /\ kind = "pair"
    /\ qlast.op = "remove"
    /\ qlast.ret \in Values
    /\ n = 1
    /\ qn = 1
    /\ Len(qa) = 4
    /\ Len(a) = 2
    /\ qj = 3
    /\ j = 0

\* C14: after any sequence of enqueue / dequeue the ArrayQueue satisfies
\* capacity <= max(3 * count, 1), dequeue shrinking the buffer by the
\* deque's rule.
C14_QueueCapacityWithinFactor ==
    kind = "queue" => Len(qa) <= (IF 3 * qn > 1 THEN 3 * qn ELSE 1)

\* C15: in queue usage of ArrayDeque (add(size(), x) and remove(0) on a
\* non-empty deque, starting from empty) the total number of element
\* moves, shifts plus elements copied by resize(), is at most a fixed
\* constant times the number of calls: here at most twice that number.
C15_AmortizedLinear ==
    kind = "meter" => work <= 2 * ops

\* a run of calls that has grown the buffer to eight slots and moved
\* seven elements in total
C15_Witness ==
    /\ kind = "meter"
    /\ cap = 8
    /\ work = 7
    /\ last.resized

\* C16: ArrayStack refines a reference list.  For in-contract add,
\* remove, set, push and pop (pop on a non-empty stack) size() is the
\* length of the reference list and get(i) its i-th element after every
\* call, across growth and shrink reallocations; push appends at the
\* end, pop removes and returns the last element, remove and set return
\* the element the reference list held at the index.
C16_StackRefinesReference ==
    /\ [](kind = "stack" =>
            /\ sstatus = "ok"
            /\ sn = Len(sref)
            /\ \A i \in 0..(sn + ExtraIdx) :
                  StackGetValue(sa, sn, i) = (IF i < Len(sref) THEN sref[i + 1] ELSE None))
    /\ [][ /\ slast'.op = "push" =>
                StackLogical(sa', sn') = Append(StackLogical(sa, sn), slast'.x)
           /\ slast'.op = "pop" =>
                /\ slast'.ret = sref[Len(sref)]
                /\ StackLogical(sa', sn') = SubSeq(StackLogical(sa, sn), 1, sn - 1)
           /\ slast'.op \in {"remove", "set"} => slast'.ret = sref[slast'.i + 1]
           /\ slast'.op = "get" =>
                slast'.ret = (IF slast'.i < Len(sref) THEN sref[slast'.i + 1] ELSE None)
         ]_vars

\* a pop returned the last of three elements and left <<2, 1>> in a
\* buffer of four slots
C16_Witness ==
    /\ kind = "stack"
    /\ slast.op = "pop"
    /\ slast.ret = 1
    /\ sref = <<2, 1>>
    /\ sn = 2
    /\ Len(sa) = 4

\* C17: shrink rule of ArrayStack.  remove(i) with i < size() that leaves
\* n elements reallocates to max(2 * n, 1) slots exactly when
\* capacity >= 3 * n and otherwise leaves the capacity unchanged; the
\* remaining elements keep their order.  In particular capacity 12 stays
\* 12 when the count becomes 6 or 5 and becomes 8 when it becomes 4.
C17_StackShrinkRule ==
    [][ (kind \in {"stack", "cap"} /\ slast'.op \in {"remove", "pop"} /\ sstatus' = "ok") =>
            /\ sn' = sn - 1
            /\ slast'.resized <=> (Len(sa) >= 3 * sn')
            /\ Len(sa') = (IF Len(sa) >= 3 * sn'
                           THEN (IF 2 * sn' > 1 THEN 2 * sn' ELSE 1)
                           ELSE Len(sa))
            /\ StackLogical(sa', sn') = DeleteAt(StackLogical(sa, sn), slast'.i)
            /\ (Len(sa) = 12 /\ sn' \in {5, 6}) => Len(sa') = 12
            /\ (Len(sa) = 12 /\ sn' = 4) => Len(sa') = 8
      ]_vars

\* the end of the capacity test: the third remove(4) returned 'r', left
\* b, r, e, e and shrank the buffer from twelve slots to eight
C17_Witness ==
    /\ kind = "cap"
    /\ slast.op = "remove"
    /\ slast.i = 4
    /\ slast.ret = 2
    /\ slast.resized
    /\ Len(sa) = 8
    /\ sn = 4
    /\ sref = <<1, 2, 3, 3>>

\* C18: SLList refines a reference sequence under any interleaving of
\* its Stack and Queue operations.  push prepends, add appends and
\* returns true, pop and remove both remove and return the front
\* element, size() is the reference length, and pop / remove on an empty
\* list return absent and leave size() = 0.
C18_ListRefinesReference ==
    /\ [](kind = "list" =>
            /\ lstatus = "ok"
            /\ ln = Len(lref)
            /\ ListElements(lnodes, lhead, MaxListCount + 1) = lref)
    /\ [][ /\ llast'.op = "add" => llast'.ret = 1
           /\ (llast'.op \in {"pop", "remove"} /\ ln > 0) =>
                /\ llast'.ret = lref[1]
                /\ ln' = ln - 1
           /\ (llast'.op \in {"pop", "remove"} /\ ln = 0) =>
                /\ llast'.ret = None
                /\ ln' = 0
         ]_vars

\* a remove returned the front element 2 of a list of four and left
\* 1, 1, 2
C18_Witness ==
    /\ kind = "list"
    /\ llast.op = "remove"
    /\ llast.ret = 2
    /\ lref = <<1, 1, 2>>
    /\ ln = 3

\* C19: in every reachable SLList state size() = 0 exactly when head is
\* absent and exactly when tail is absent; when size() > 0 the chain of
\* next links from head has exactly size() nodes and ends in the tail
\* node, whose next is absent.
C19_ListShape ==
    kind = "list" =>
        /\ (ln = 0) <=> (lhead = NoLink)
        /\ (ln = 0) <=> (ltail = NoLink)
        /\ LET c == Chain(lnodes, lhead, MaxListCount + 2)
           IN /\ Len(c) = ln
              /\ ln > 0 => /\ c[1] = lhead
                           /\ c[ln] = ltail
                           /\ lnodes[ltail].next = NoLink

\* a list of three nodes, the last of them appended by add
C19_Witness ==
    /\ kind = "list"
    /\ ln = 3
    /\ llast.op = "add"
    /\ lhead # ltail
    /\ lnodes[lhead].next # ltail

\* C20: ArrayStack.remove(i) with i >= size() returns absent and leaves
\* size() and every get(k) unchanged, also for size() <= i < capacity
\* and on the empty stack.
C20_StackRemoveOutOfRangeAbsent ==
    [][ (kind = "stackany" /\ slast'.op = "remove" /\ slast'.i >= sn) =>
            /\ sstatus' = "ok"
            /\ slast'.ret = None
            /\ sn' = sn
            /\ \A k \in 0..Len(sa) :
                  StackGetValue(sa', sn', k) = StackGetValue(sa, sn, k)
      ]_vars

\* C21: shift cost of ArrayDeque, reallocation not counted.  add(i, x)
\* with 0 <= i <= count moves exactly i elements when i < count / 2
\* (integer division) and exactly count - i otherwise; remove(i) with
\* i < count moves exactly i elements when i < count / 2 and
\* count - 1 - i otherwise; each call moves at most
\* min(i, count - i) + 1 elements.
C21_ShiftCost ==
    [][ /\ (last'.op = "add" /\ last'.i <= n) =>
              /\ last'.moves = (IF last'.i < n \div 2 THEN last'.i ELSE n - last'.i)
              /\ last'.moves <= (IF last'.i < n - last'.i THEN last'.i ELSE n - last'.i) + 1
        /\ (last'.op = "remove" /\ last'.i < n /\ status' = "ok") =>
              /\ last'.moves = (IF last'.i < n \div 2 THEN last'.i ELSE n - 1 - last'.i)
              /\ last'.moves <= (IF last'.i < n - last'.i THEN last'.i ELSE n - last'.i) + 1
      ]_vars

\* remove(1) on four elements took the front loop and moved one element
C21_Witness ==
    /\ last.op = "remove"
    /\ last.i = 1
    /\ last.moves = 1
    /\ n = 3
    /\ status = "ok"

\* C22: back-half removal touches only the back half.  remove(i) with
\* count / 2 <= i < count that does not shrink the buffer leaves the
\* head and the buffer size unchanged and modifies no physical slot
\* other than those of the logical positions [i, count); the slots of
\* the positions [0, i) keep their content.
C22_BackHalfRemoveFrame ==
    [][ (/\ last'.op = "remove"
         /\ status' = "ok"
         /\ last'.i < n
         /\ last'.i >= n \div 2
         /\ ~last'.resized) =>
            /\ j' = j
            /\ Len(a') = Len(a)
            /\ \A p \in 0..(cap - 1) :
                  (\A k \in last'.i..(n - 1) : Phys(j, k, cap) # p) => a'[p + 1] = a[p + 1]
            /\ \A k \in 0..(last'.i - 1) :
                  SlotAt(a', Phys(j', k, cap)) = SlotAt(a, Phys(j, k, cap))
      ]_vars

\* remove(2) on four elements whose head was not at slot 0: three
\* elements remain, the head has not moved, one element was shifted
C22_Witness ==
    /\ last.op = "remove"
    /\ last.i = 2
    /\ ~last.resized
    /\ last.moves = 1
    /\ n = 3
    /\ j = 3
    /\ status = "ok"

\* C23: add(i, x) with i > size() never overwrites or loses an existing
\* element: every element get returned before the call is still
\* returned by get at some position after it, and all size() positions
\* hold an element.
C23_AddBeyondSizeKeepsElements ==
    [][ (last'.op = "add" /\ last'.i > n) =>
            /\ \A k \in 0..(n - 1) :
                  GetValue(a, j, n, k) \in Values =>
                      \E k2 \in 0..(n' - 1) : GetValue(a', j', n', k2) = GetValue(a, j, n, k)
            /\ \A k \in 0..(n' - 1) : GetValue(a', j', n', k) \in Values
      ]_vars

\* C24: ArrayStack.pop() on an empty stack, fresh or emptied by earlier
\* pops, returns absent without aborting and leaves size() = 0.
C24_StackPopEmptyAbsent ==
    [][ (kind = "stackany" /\ slast'.op = "pop" /\ sn = 0) =>
            /\ sstatus' = "ok"
            /\ slast'.ret = None
            /\ sn' = 0
      ]_vars

\* C25: SLList.pop() and SLList.remove() never abort on a non-empty
\* list reached by any interleaving of push, pop, add and remove: when
\* the head node is unwrapped it has exactly one owner, neither the tail
\* nor any node's next link referring to it, so the call returns its
\* element and the node is dropped.
C25_UnwrapSingleOwner ==
    [][ (kind = "list" /\ llast'.op \in {"pop", "remove"} /\ ln > 0) =>
            /\ lstatus' = "ok"
            /\ lhead # NoLink
            /\ lhead' # lhead
            /\ ltail' # lhead
            /\ \A m \in DOMAIN lnodes : lnodes[m].next # lhead
            /\ lhead \notin DOMAIN lnodes'
            /\ llast'.ret = lnodes[lhead].element
      ]_vars

\* a pop took the only node of the list, which head and tail both
\* referred to, and returned its element
C25_Witness ==
    /\ kind = "list"
    /\ llast.op = "pop"
    /\ llast.ret \in Values
    /\ ln = 0
    /\ lhead = NoLink
    /\ ltail = NoLink
    /\ lstatus = "ok"
=============================================================================
